---- MODULE Spec2Model ----
(***************************************************************************)
(* Model of the "entradas" CRUD service (src/main.rs): five actix-web      *)
(* handlers, each running one parameterised SQL statement against the      *)
(* MySQL table `entradas`, plus process start-up.                          *)
(***************************************************************************)
EXTENDS Integers, Sequences, FiniteSets, TLC

\* ------------------------------------------------------------------ bounds
\* Number of AUTO_INCREMENT ids the store hands out in a behaviour.
MaxId == 2

\* ------------------------------------------------------- sample field values
Cedulas == {"001", "002"}
Nombres == {"Ana", "Luis"}
Funciones == {"Matrix", "Dune"}
Cantidades == {2, 3}
Horarios == {"18:00", "20:00"}

Ids == 1..MaxId

\* Option<T>: None is <<>>, Some(v) is <<v>>.
None == <<>>
Some(v) == <<v>>
Opt(S) == {None} \cup {Some(v) : v \in S}

Columns == {"numero_cedula", "nombre_cliente", "nombre_funcion",
            "cantidad_entradas", "horario_funcion"}

\* struct Entrada: one row of the table, id included.
Entrada == [id : Ids, numero_cedula : Cedulas, nombre_cliente : Nombres,
            nombre_funcion : Funciones, cantidad_entradas : Cantidades,
            horario_funcion : Horarios]

\* struct CrearEntrada: the POST payload.
CrearEntrada == [numero_cedula : Cedulas, nombre_cliente : Nombres,
                 nombre_funcion : Funciones, cantidad_entradas : Cantidades,
                 horario_funcion : Horarios]

\* struct ActualizarEntrada: the PUT payload, every field optional.
ActualizarEntrada == [numero_cedula : Opt(Cedulas), nombre_cliente : Opt(Nombres),
                      nombre_funcion : Opt(Funciones),
                      cantidad_entradas : Opt(Cantidades),
                      horario_funcion : Opt(Horarios)]

VARIABLES
    phase,      \* "boot" | "serving" | "exited"
    exitCode,   \* process exit code once phase = "exited", else -1
    dbUrl,      \* DATABASE_URL as main finds it: "unset" | "malformed" | "valid"
    portFree,   \* whether 127.0.0.1:8080 can be bound
    storeUp,    \* whether the MySQL server can be reached right now
    entradas,   \* the table: a set of rows
    nextId,     \* the table's AUTO_INCREMENT counter
    req,        \* the request the last handler run served (NoReq when idle)
    resp,       \* the response that run produced
    fault,      \* whether the store failed that run's statement
    stmts,      \* number of statements that run executed
    pc,         \* per worker: position of the handler it is running
    creq,       \* per worker: the request it is serving
    conn,       \* per worker: what its pooled connection holds after exec
    cresp,      \* per worker: the response it produced
    cstmts,     \* per worker: statements executed for the current request
    serial,     \* table and counter of the serial execution of the requests
    expected    \* per worker: the response of that serial execution

seqVars == <<req, resp, fault, stmts>>
concVars == <<pc, creq, conn, cresp, cstmts, serial, expected>>
vars == <<phase, exitCode, dbUrl, portFree, storeUp, entradas, nextId,
          req, resp, fault, stmts, pc, creq, conn, cresp, cstmts, serial, expected>>

NoReq == [op |-> "none"]
NoResp == [status |-> 0]

\* The actix workers that serve requests at the same time.
Workers == {"w1", "w2"}

\* A connection checked out of the pool, before any statement ran on it.
IdleConn == [err |-> <<>>, affected |-> 0, rows |-> {}]

\* ------------------------------------------------------------ the store
\* Error text of the driver, as a sequence of fragments.
DuplicateEntryError == <<"Server error:", "ERROR 23000 (1062):", "Duplicate entry", "for key">>
ServerGoneError == <<"Io error:", "Connection reset">>
NoError == <<>>

\* str.contains(needle) over fragments.
Contains(text, needle) == \E i \in 1..Len(text) : text[i] = needle

\* Variant: a table declared without the UNIQUE key on numero_cedula.
ViolatesUniqueIdOnly(tabla) ==
    \E r1 \in tabla, r2 \in tabla : r1 # r2 /\ r1.id = r2.id

\* Uniqueness constraints of the table: PRIMARY KEY(id), UNIQUE(numero_cedula).
ViolatesUnique(tabla) ==
    \E r1 \in tabla, r2 \in tabla :
        r1 # r2 /\ (r1.id = r2.id \/ r1.numero_cedula = r2.numero_cedula)

StmtFailed(tabla, nid) ==
    [err |-> ServerGoneError, tabla |-> tabla, nextId |-> nid, affected |-> 0, rows |-> {}]

\* INSERT INTO entradas (...) VALUES (:numero_cedula, ...)
InsertStmt(tabla, nid, params) ==
    LET row == [id |-> nid,
                numero_cedula |-> params.numero_cedula,
                nombre_cliente |-> params.nombre_cliente,
                nombre_funcion |-> params.nombre_funcion,
                cantidad_entradas |-> params.cantidad_entradas,
                horario_funcion |-> params.horario_funcion]
        after == tabla \cup {row}
    IN  IF row \in tabla \/ ViolatesUnique(after)
        THEN [err |-> DuplicateEntryError, tabla |-> tabla, nextId |-> nid,
              affected |-> 0, rows |-> {}]
        ELSE [err |-> NoError, tabla |-> after, nextId |-> nid + 1,
              affected |-> 1, rows |-> {}]

\* One row after "SET col = :param, ..." with the given named parameters.
SetColumns(r, parts, params) ==
    LET val(col, old) == IF \E p \in parts : p[1] = col
                         THEN params[(CHOOSE p \in parts : p[1] = col)[2]]
                         ELSE old
    IN  [id |-> r.id,
         numero_cedula |-> val("numero_cedula", r.numero_cedula),
         nombre_cliente |-> val("nombre_cliente", r.nombre_cliente),
         nombre_funcion |-> val("nombre_funcion", r.nombre_funcion),
         cantidad_entradas |-> val("cantidad_entradas", r.cantidad_entradas),
         horario_funcion |-> val("horario_funcion", r.horario_funcion)]

\* UPDATE entradas SET <parts> WHERE id = :id
UpdateStmt(tabla, nid, parts, params) ==
    LET hit == {r \in tabla : r.id = params["id"]}
        changed == {r \in hit : SetColumns(r, parts, params) # r}
        after == (tabla \ hit) \cup {SetColumns(r, parts, params) : r \in hit}
    IN  IF ViolatesUnique(after) \/ Cardinality(after) # Cardinality(tabla)
        THEN [err |-> DuplicateEntryError, tabla |-> tabla, nextId |-> nid,
              affected |-> 0, rows |-> {}]
        ELSE [err |-> NoError, tabla |-> after, nextId |-> nid,
              affected |-> Cardinality(changed), rows |-> {}]

\* DELETE FROM entradas WHERE id = :id
DeleteStmt(tabla, nid, id) ==
    LET hit == {r \in tabla : r.id = id}
    IN  [err |-> NoError, tabla |-> tabla \ hit, nextId |-> nid,
         affected |-> Cardinality(hit), rows |-> {}]

\* SELECT id, ... FROM entradas
SelectAllStmt(tabla, nid) ==
    [err |-> NoError, tabla |-> tabla, nextId |-> nid, affected |-> 0, rows |-> tabla]

\* SELECT id, ... FROM entradas WHERE id = :id, read with exec_first
SelectByIdStmt(tabla, nid, id) ==
    LET hit == {r \in tabla : r.id = id}
    IN  [err |-> NoError, tabla |-> tabla, nextId |-> nid, affected |-> 0,
         rows |-> IF hit = {} THEN {} ELSE {CHOOSE r \in hit : TRUE}]

\* ---------------------------------------------------------- the handlers
Json(status, kind, message, rows) ==
    [status |-> status, kind |-> kind, message |-> message, rows |-> rows]

\* What a handler run yields: the response, the eprintln line, the table.
Outcome(response, log, tabla, nid, n) ==
    [resp |-> response, log |-> log, tabla |-> tabla, nextId |-> nid, stmts |-> n]

\* Variant: the connection failure reported as 503 Service Unavailable.
ConnErrorUnavailable(tabla, nid) ==
    Outcome(Json(503, "message", "Error al conectar a la base de datos", {}),
            "Error al obtener conexion", tabla, nid, 0)

\* The Err arm every handler has around pool.get_conn().
ConnError(tabla, nid) ==
    Outcome(Json(500, "message", "Error al conectar a la base de datos", {}),
            "Error al obtener conexion", tabla, nid, 0)

\* Variant: the row tuple destructured with two columns in the wrong order.
ToEntradaSwapped(r) ==
    [id |-> r.id,
     numero_cedula |-> r.numero_cedula,
     nombre_cliente |-> r.nombre_funcion,
     nombre_funcion |-> r.nombre_cliente,
     cantidad_entradas |-> r.cantidad_entradas,
     horario_funcion |-> r.horario_funcion]

\* Row tuple -> Entrada { id: Some(id), ... }
ToEntrada(r) ==
    [id |-> r.id,
     numero_cedula |-> r.numero_cedula,
     nombre_cliente |-> r.nombre_cliente,
     nombre_funcion |-> r.nombre_funcion,
     cantidad_entradas |-> r.cantidad_entradas,
     horario_funcion |-> r.horario_funcion]

\* match result { Ok(entradas) => ..., Err(e) => ... } of the list query.
ListResponse(res) ==
    IF res.err = NoError
    THEN Outcome(Json(200, "entradas", "", {ToEntrada(r) : r \in res.rows}),
                 "", res.tabla, res.nextId, 1)
    ELSE Outcome(Json(500, "message", "Error al obtener entradas", {}),
                 "Error al consultar entradas", res.tabla, res.nextId, 1)

obtener_entradas(connOk, bad, tabla, nid) ==
    IF ~connOk THEN ConnError(tabla, nid)
    ELSE ListResponse(IF bad THEN StmtFailed(tabla, nid)
                      ELSE SelectAllStmt(tabla, nid))

\* match result { Ok(Some(..)) => ..., Ok(None) => ..., Err(e) => ... }
GetResponse(res) ==
    IF res.err # NoError
    THEN Outcome(Json(500, "message", "Error al obtener entrada", {}),
                 "Error al consultar entrada", res.tabla, res.nextId, 1)
    ELSE IF res.rows = {}
    THEN Outcome(Json(404, "message", "Entrada no encontrada", {}),
                 "", res.tabla, res.nextId, 1)
    ELSE Outcome(Json(200, "entrada", "", {ToEntrada(r) : r \in res.rows}),
                 "", res.tabla, res.nextId, 1)

obtener_entrada_por_id(connOk, bad, tabla, nid, entrada_id) ==
    IF ~connOk THEN ConnError(tabla, nid)
    ELSE GetResponse(IF bad THEN StmtFailed(tabla, nid)
                     ELSE SelectByIdStmt(tabla, nid, entrada_id))

\* Variant: no special case for the duplicate-key error text.
CreateResponseNoConflict(res) ==
    IF res.err = NoError
    THEN Outcome(Json(201, "message", "Entrada creada exitosamente", {}),
                 "", res.tabla, res.nextId, 1)
    ELSE Outcome(Json(500, "message", "Error al crear entrada", {}),
                 "Error al crear entrada", res.tabla, res.nextId, 1)

\* match result { Ok(_) => Created, Err(e) => Conflict | 500 } of the insert.
CreateResponse(res) ==
    IF res.err = NoError
    THEN Outcome(Json(201, "message", "Entrada creada exitosamente", {}),
                 "", res.tabla, res.nextId, 1)
    ELSE IF Contains(res.err, "Duplicate entry")
    THEN Outcome(Json(409, "message",
                      "El numero de cedula ya existe para otra entrada", {}),
                 "Error al crear entrada", res.tabla, res.nextId, 1)
    ELSE Outcome(Json(500, "message", "Error al crear entrada", {}),
                 "Error al crear entrada", res.tabla, res.nextId, 1)

crear_entrada(connOk, bad, tabla, nid, entrada_data) ==
    IF ~connOk THEN ConnError(tabla, nid)
    ELSE CreateResponse(IF bad THEN StmtFailed(tabla, nid)
                        ELSE InsertStmt(tabla, nid, entrada_data))

\* Variant: the horario_funcion part written with the column of another part.
QueryPartsSlip(entrada_data) ==
    {<<c, c>> : c \in {c \in Columns \ {"horario_funcion"} : entrada_data[c] # None}}
    \cup (IF entrada_data["horario_funcion"] # None
          THEN {<<"nombre_funcion", "horario_funcion">>} ELSE {})

\* query_parts: one <<column, parameter name>> pair per supplied field.
QueryParts(entrada_data) ==
    {<<c, c>> : c \in {c \in Columns : entrada_data[c] # None}}

\* params_vec: "id" first, then one binding per supplied field.
ParamsVec(entrada_id, entrada_data) ==
    [n \in {"id"} \cup {c \in Columns : entrada_data[c] # None} |->
        IF n = "id" THEN entrada_id ELSE entrada_data[n][1]]

\* Variant: the affected-row count is not consulted.
UpdateResponseIgnoreAffected(res) ==
    IF res.err = NoError
    THEN Outcome(Json(200, "message", "Entrada actualizada exitosamente", {}),
                 "", res.tabla, res.nextId, 1)
    ELSE IF Contains(res.err, "Duplicate entry")
    THEN Outcome(Json(409, "message",
                      "El numero de cedula ya existe para otra entrada", {}),
                 "Error al actualizar entrada", res.tabla, res.nextId, 1)
    ELSE Outcome(Json(500, "message", "Error al actualizar entrada", {}),
                 "Error al actualizar entrada", res.tabla, res.nextId, 1)

\* match result { Ok(_) => affected_rows ..., Err(e) => ... } of the update.
UpdateResponse(res) ==
    IF res.err = NoError
    THEN IF res.affected = 0
         THEN Outcome(Json(404, "message", "Entrada no encontrada o sin cambios", {}),
                      "", res.tabla, res.nextId, 1)
         ELSE Outcome(Json(200, "message", "Entrada actualizada exitosamente", {}),
                      "", res.tabla, res.nextId, 1)
    ELSE IF Contains(res.err, "Duplicate entry")
    THEN Outcome(Json(409, "message",
                      "El numero de cedula ya existe para otra entrada", {}),
                 "Error al actualizar entrada", res.tabla, res.nextId, 1)
    ELSE Outcome(Json(500, "message", "Error al actualizar entrada", {}),
                 "Error al actualizar entrada", res.tabla, res.nextId, 1)

actualizar_entrada(connOk, bad, tabla, nid, entrada_id, entrada_data) ==
    IF ~connOk THEN ConnError(tabla, nid)
    ELSE IF QueryParts(entrada_data) = {}
    THEN Outcome(Json(400, "message", "No se proporcionaron datos para actualizar", {}),
                 "", tabla, nid, 0)
    ELSE UpdateResponse(IF bad THEN StmtFailed(tabla, nid)
                        ELSE UpdateStmt(tabla, nid, QueryParts(entrada_data),
                                        ParamsVec(entrada_id, entrada_data)))

\* Variant: a delete that removed nothing reported like a failed statement.
DeleteResponseMissingIsError(res) ==
    IF res.err = NoError /\ res.affected # 0
    THEN Outcome(Json(200, "message", "Entrada eliminada exitosamente", {}),
                 "", res.tabla, res.nextId, 1)
    ELSE Outcome(Json(500, "message", "Error al eliminar entrada", {}),
                 "Error al eliminar entrada", res.tabla, res.nextId, 1)

\* match result { Ok(_) => affected_rows ..., Err(e) => ... } of the delete.
DeleteResponse(res) ==
    IF res.err = NoError
    THEN IF res.affected = 0
         THEN Outcome(Json(404, "message", "Entrada no encontrada", {}),
                      "", res.tabla, res.nextId, 1)
         ELSE Outcome(Json(200, "message", "Entrada eliminada exitosamente", {}),
                      "", res.tabla, res.nextId, 1)
    ELSE Outcome(Json(500, "message", "Error al eliminar entrada", {}),
                 "Error al eliminar entrada", res.tabla, res.nextId, 1)

eliminar_entrada(connOk, bad, tabla, nid, entrada_id) ==
    IF ~connOk THEN ConnError(tabla, nid)
    ELSE DeleteResponse(IF bad THEN StmtFailed(tabla, nid)
                        ELSE DeleteStmt(tabla, nid, entrada_id))

\* ------------------------------------------------------------- behaviour
Init ==
    /\ phase = "boot"
    /\ exitCode = -1
    /\ dbUrl \in {"unset", "malformed", "valid"}
    /\ portFree \in BOOLEAN
    /\ storeUp \in BOOLEAN
    /\ entradas = {}
    /\ nextId = 1
    /\ req = NoReq
    /\ resp = NoResp
    /\ fault = FALSE
    /\ stmts = 0
    /\ pc = [w \in Workers |-> "idle"]
    /\ creq = [w \in Workers |-> NoReq]
    /\ conn = [w \in Workers |-> IdleConn]
    /\ cresp = [w \in Workers |-> NoResp]
    /\ cstmts = [w \in Workers |-> 0]
    /\ serial = [tabla |-> {}, nextId |-> 1]
    /\ expected = [w \in Workers |-> NoResp]

\* fn main: build the pool, bind the port, serve.
Main ==
    /\ phase = "boot"
    /\ IF dbUrl = "unset" THEN phase' = "exited" /\ exitCode' = 101
       ELSE IF dbUrl = "malformed" THEN phase' = "exited" /\ exitCode' = 1
       ELSE IF ~portFree THEN phase' = "exited" /\ exitCode' = 1
       ELSE phase' = "serving" /\ exitCode' = exitCode
    /\ UNCHANGED <<dbUrl, portFree, storeUp, entradas, nextId, seqVars, concVars>>

\* The MySQL server becomes unreachable, or reachable again. The change is
\* observed between handler runs; a server lost while a handler holds a
\* connection is that run's failed statement.
StoreFlip ==
    /\ req = NoReq
    /\ \A w \in Workers : pc[w] \in {"idle", "done"}
    /\ storeUp' = ~storeUp
    /\ UNCHANGED <<phase, exitCode, dbUrl, portFree, entradas, nextId, seqVars,
                   concVars>>

\* Whether the store may fail the statement of a run (only if it is reached).
Faults == IF storeUp THEN BOOLEAN ELSE {FALSE}

Serve(request, bad, out) ==
    /\ req' = request
    /\ fault' = bad
    /\ resp' = [status |-> out.resp.status, kind |-> out.resp.kind,
                message |-> out.resp.message, rows |-> out.resp.rows,
                log |-> out.log]
    /\ entradas' = out.tabla
    /\ nextId' = out.nextId
    /\ stmts' = out.stmts
    /\ UNCHANGED <<phase, exitCode, dbUrl, portFree, storeUp, concVars>>

Idle == phase = "serving" /\ req = NoReq

\* GET /entradas
ObtenerEntradas ==
    /\ Idle
    /\ \E bad \in Faults :
         Serve([op |-> "GET_ALL"], bad, obtener_entradas(storeUp, bad, entradas, nextId))

\* GET /entradas/{id}
ObtenerEntradaPorId ==
    /\ Idle
    /\ \E id \in Ids, bad \in Faults :
         Serve([op |-> "GET", id |-> id], bad,
               obtener_entrada_por_id(storeUp, bad, entradas, nextId, id))

\* POST /entradas
CrearEntradaReq ==
    /\ Idle
    /\ nextId <= MaxId
    /\ \E data \in CrearEntrada, bad \in Faults :
         Serve([op |-> "POST", data |-> data], bad,
               crear_entrada(storeUp, bad, entradas, nextId, data))

\* PUT /entradas/{id}
ActualizarEntradaReq ==
    /\ Idle
    /\ \E id \in Ids, data \in ActualizarEntrada, bad \in Faults :
         Serve([op |-> "PUT", id |-> id, data |-> data], bad,
               actualizar_entrada(storeUp, bad, entradas, nextId, id, data))

\* DELETE /entradas/{id}
EliminarEntradaReq ==
    /\ Idle
    /\ \E id \in Ids, bad \in Faults :
         Serve([op |-> "DELETE", id |-> id], bad,
               eliminar_entrada(storeUp, bad, entradas, nextId, id))

\* The response is written to the client; the worker is idle again.
Reply ==
    /\ phase = "serving"
    /\ req # NoReq
    /\ req' = NoReq
    /\ resp' = NoResp
    /\ fault' = FALSE
    /\ stmts' = 0
    /\ UNCHANGED <<phase, exitCode, dbUrl, portFree, storeUp, entradas, nextId,
                   concVars>>

Next ==
    \/ Main
    \/ StoreFlip
    \/ ObtenerEntradas
    \/ ObtenerEntradaPorId
    \/ CrearEntradaReq
    \/ ActualizarEntradaReq
    \/ EliminarEntradaReq
    \/ Reply

Spec == Init /\ [][Next]_vars

\* ------------------------------------------- concurrent handler execution
\* The handler the router binds to a request, run in one piece.
HandlerOf(request, connOk, bad, tabla, nid) ==
    CASE request.op = "GET_ALL" -> obtener_entradas(connOk, bad, tabla, nid)
      [] request.op = "GET" ->
            obtener_entrada_por_id(connOk, bad, tabla, nid, request.id)
      [] request.op = "POST" -> crear_entrada(connOk, bad, tabla, nid, request.data)
      [] request.op = "PUT" ->
            actualizar_entrada(connOk, bad, tabla, nid, request.id, request.data)
      [] request.op = "DELETE" -> eliminar_entrada(connOk, bad, tabla, nid, request.id)

\* The one statement a handler sends once it holds a connection.
StmtOf(request, tabla, nid) ==
    CASE request.op = "GET_ALL" -> SelectAllStmt(tabla, nid)
      [] request.op = "GET" -> SelectByIdStmt(tabla, nid, request.id)
      [] request.op = "POST" -> InsertStmt(tabla, nid, request.data)
      [] request.op = "PUT" ->
            UpdateStmt(tabla, nid, QueryParts(request.data),
                       ParamsVec(request.id, request.data))
      [] request.op = "DELETE" -> DeleteStmt(tabla, nid, request.id)

\* The match on the awaited result, fed from the worker's own connection.
ResponseOf(request, c) ==
    LET res == [err |-> c.err, affected |-> c.affected, rows |-> c.rows,
                tabla |-> {}, nextId |-> 0]
    IN  CASE request.op = "GET_ALL" -> ListResponse(res)
          [] request.op = "GET" -> GetResponse(res)
          [] request.op = "POST" -> CreateResponse(res)
          [] request.op = "PUT" -> UpdateResponse(res)
          [] request.op = "DELETE" -> DeleteResponse(res)

Wire(out) ==
    [status |-> out.resp.status, kind |-> out.resp.kind,
     message |-> out.resp.message, rows |-> out.resp.rows, log |-> out.log]

\* Requests the concurrent workers draw from: creations that differ in the key,
\* updates that set the key or one ordinary field, or nothing.
ConcCrear ==
    {d \in CrearEntrada : /\ d.nombre_cliente = "Ana"
                          /\ d.nombre_funcion = "Matrix"
                          /\ d.horario_funcion = "20:00"
                          /\ d.cantidad_entradas = 2}

ConcActualizar ==
    {d \in ActualizarEntrada : /\ d.nombre_cliente = None
                               /\ d.nombre_funcion = None
                               /\ d.horario_funcion = None
                               /\ d.numero_cedula \in {None, Some("002")}
                               /\ (d.numero_cedula = None \/ d.cantidad_entradas = None)}

ConcRequests ==
    {[op |-> "GET_ALL"]}
    \cup {[op |-> "GET", id |-> id] : id \in Ids}
    \cup {[op |-> "DELETE", id |-> id] : id \in Ids}
    \cup {[op |-> "POST", data |-> d] : d \in ConcCrear}
    \cup {[op |-> "PUT", id |-> i, data |-> d] : i \in Ids, d \in ConcActualizar}

\* POST requests holding a connection whose INSERT has not run yet.
PendingInserts ==
    Cardinality({w \in Workers : creq[w].op = "POST" /\ pc[w] = "exec"})

\* The router hands a request to a worker, whose pool.get_conn().await
\* resolves; a PUT then builds its query parts.
ConcGetConn(w) ==
    /\ phase = "serving"
    /\ pc[w] = "idle"
    /\ \E r \in ConcRequests :
          /\ r.op = "POST" => nextId + PendingInserts <= MaxId
          /\ creq' = [creq EXCEPT ![w] = r]
          /\ IF ~storeUp \/ (r.op = "PUT" /\ QueryParts(r.data) = {})
             THEN /\ cresp' = [cresp EXCEPT ![w] =
                        Wire(HandlerOf(r, storeUp, FALSE, entradas, nextId))]
                  /\ expected' = [expected EXCEPT ![w] =
                        Wire(HandlerOf(r, storeUp, FALSE, serial.tabla, serial.nextId))]
                  /\ pc' = [pc EXCEPT ![w] = "done"]
             ELSE /\ pc' = [pc EXCEPT ![w] = "exec"]
                  /\ UNCHANGED <<cresp, expected>>
    /\ UNCHANGED <<phase, exitCode, dbUrl, portFree, storeUp, entradas, nextId,
                   seqVars, conn, cstmts, serial>>

\* The store executes the worker's statement; the result waits on its connection.
ConcExec(w) ==
    /\ pc[w] = "exec"
    /\ \E bad \in BOOLEAN :
          LET res == IF bad THEN StmtFailed(entradas, nextId)
                     ELSE StmtOf(creq[w], entradas, nextId)
              ser == HandlerOf(creq[w], TRUE, bad, serial.tabla, serial.nextId)
          IN  /\ entradas' = res.tabla
              /\ nextId' = res.nextId
              /\ conn' = [conn EXCEPT ![w] =
                    [err |-> res.err, affected |-> res.affected, rows |-> res.rows]]
              /\ serial' = [tabla |-> ser.tabla, nextId |-> ser.nextId]
              /\ expected' = [expected EXCEPT ![w] = Wire(ser)]
    /\ cstmts' = [cstmts EXCEPT ![w] = @ + 1]
    /\ pc' = [pc EXCEPT ![w] = "respond"]
    /\ UNCHANGED <<phase, exitCode, dbUrl, portFree, storeUp, seqVars, creq, cresp>>

\* Variant: every handler reads the result off one shared connection.
ConcRespondSharedConn(w) ==
    /\ pc[w] = "respond"
    /\ cresp' = [cresp EXCEPT ![w] = Wire(ResponseOf(creq[w], conn["w1"]))]
    /\ pc' = [pc EXCEPT ![w] = "done"]
    /\ UNCHANGED <<phase, exitCode, dbUrl, portFree, storeUp, entradas, nextId,
                   seqVars, creq, conn, cstmts, serial, expected>>

\* The handler resumes after the await and maps the result to a response.
ConcRespond(w) ==
    /\ pc[w] = "respond"
    /\ cresp' = [cresp EXCEPT ![w] = Wire(ResponseOf(creq[w], conn[w]))]
    /\ pc' = [pc EXCEPT ![w] = "done"]
    /\ UNCHANGED <<phase, exitCode, dbUrl, portFree, storeUp, entradas, nextId,
                   seqVars, creq, conn, cstmts, serial, expected>>

\* The response is written; the connection goes back to the pool.
ConcReply(w) ==
    /\ pc[w] = "done"
    /\ pc' = [pc EXCEPT ![w] = "idle"]
    /\ creq' = [creq EXCEPT ![w] = NoReq]
    /\ conn' = [conn EXCEPT ![w] = IdleConn]
    /\ cresp' = [cresp EXCEPT ![w] = NoResp]
    /\ cstmts' = [cstmts EXCEPT ![w] = 0]
    /\ expected' = [expected EXCEPT ![w] = NoResp]
    /\ UNCHANGED <<phase, exitCode, dbUrl, portFree, storeUp, entradas, nextId,
                   seqVars, serial>>

NextConc ==
    \/ Main
    \/ StoreFlip
    \/ \E w \in Workers : ConcGetConn(w)
    \/ \E w \in Workers : ConcExec(w)
    \/ \E w \in Workers : ConcRespond(w)
    \/ \E w \in Workers : ConcReply(w)

SpecConc == Init /\ [][NextConc]_vars

\* ------------------------------------------------------------ properties
\* A handler ran in this step: the worker was idle and now holds a request.
Handled(op) == req = NoReq /\ req'.op = op

RowsWithId(tabla, id) == {r \in tabla : r.id = id}

NoFieldSupplied(data) == \A c \in Columns : data[c] = None

\* The row a POST payload becomes once the store has given it an id.
RowOf(id, data) ==
    [id |-> id, numero_cedula |-> data.numero_cedula,
     nombre_cliente |-> data.nombre_cliente, nombre_funcion |-> data.nombre_funcion,
     cantidad_entradas |-> data.cantidad_entradas,
     horario_funcion |-> data.horario_funcion]

\* C1: in every reachable state no two stored entries share an id and no two
\* stored entries share a numero_cedula.
C1_UniqueIdAndCedula ==
    \A r1 \in entradas, r2 \in entradas :
        r1 # r2 => (r1.id # r2.id /\ r1.numero_cedula # r2.numero_cedula)

C1_Witness ==
    /\ Cardinality(entradas) = 2
    /\ req.op = "PUT"
    /\ resp.status = 409

\* C2 as stated: a POST whose numero_cedula is already stored is answered 409
\* and leaves the store exactly as it was.
C2_Original ==
    [][(Handled("POST")
        /\ \E r \in entradas : r.numero_cedula = req'.data.numero_cedula)
       => (resp'.status = 409 /\ entradas' = entradas /\ nextId' = nextId)]_vars

\* C2 amended: such a POST leaves the store exactly as it was and is answered
\* 409 whenever a connection is obtained and the store does not fail the
\* statement for another reason; otherwise it is answered 500, never 201.
C2_DuplicatePostConflict ==
    [][(Handled("POST")
        /\ \E r \in entradas : r.numero_cedula = req'.data.numero_cedula)
       => /\ entradas' = entradas
          /\ nextId' = nextId
          /\ resp'.status \in {409, 500}
          /\ (storeUp /\ ~fault') => resp'.status = 409
          /\ resp'.status = 409 => (storeUp /\ ~fault')]_vars

C2_Witness ==
    /\ req.op = "POST"
    /\ resp.status = 409
    /\ \E r \in entradas : r.numero_cedula = req.data.numero_cedula

\* C3: a PUT supplying none of the five fields is answered 400 whatever the
\* availability of the store, executes no statement and changes no entry.
C3_EmptyPutRejected ==
    [][(Handled("PUT") /\ NoFieldSupplied(req'.data))
       => (resp'.status = 400 /\ stmts' = 0 /\ entradas' = entradas)]_vars

C5_PutFrame ==
    [][(Handled("PUT") /\ resp'.status = 200)
       => \E r \in entradas :
             /\ r.id = req'.id
             /\ \E n \in entradas' :
                   /\ n.id = r.id
                   /\ \A c \in Columns :
                         n[c] = IF req'.data[c] # None THEN req'.data[c][1] ELSE r[c]
                   /\ entradas' = (entradas \ {r}) \cup {n}
             /\ nextId' = nextId]_vars

C5_Witness ==
    /\ req.op = "PUT"
    /\ resp.status = 200
    /\ Cardinality(entradas) = 2
    /\ \E c \in Columns : req.data[c] = None
    /\ \E c \in Columns : req.data[c] # None

\* Whether the UPDATE of a PUT would collide with another entry's cedula.
WouldDuplicate(tabla, id, data) ==
    /\ RowsWithId(tabla, id) # {}
    /\ data.numero_cedula # None
    /\ \E r \in tabla : r.id # id /\ r.numero_cedula = data.numero_cedula[1]

\* Whether the UPDATE of a PUT changes a stored value.
WouldChange(tabla, id, data) ==
    \E r \in tabla :
        r.id = id /\ \E c \in Columns : data[c] # None /\ data[c][1] # r[c]

\* C6: a PUT supplying at least one field whose statement the store executes
\* without error is answered 200 exactly when a row changed and 404 exactly
\* when none did (no entry has the id, or the values equal the stored ones);
\* on an id without entry it is answered 404 and the store is unchanged.
C6_PutAffectedRows ==
    [][(Handled("PUT") /\ ~NoFieldSupplied(req'.data) /\ storeUp /\ ~fault'
        /\ ~WouldDuplicate(entradas, req'.id, req'.data))
       => /\ resp'.status \in {200, 404}
          /\ resp'.status = 200 <=> WouldChange(entradas, req'.id, req'.data)
          /\ RowsWithId(entradas, req'.id) = {}
             => (resp'.status = 404 /\ entradas' = entradas /\ nextId' = nextId)]_vars

C6_Witness ==
    /\ req.op = "PUT"
    /\ resp.status = 404
    /\ RowsWithId(entradas, req.id) # {}
    /\ ~NoFieldSupplied(req.data)

\* An id the store handed out whose entry is no longer stored.
Gone(tabla, nid, id) == id < nid /\ RowsWithId(tabla, id) = {}

\* C7: with the store available a DELETE on an id that has an entry is
\* answered 200 and removes it for good: the id never has an entry again, and
\* every later GET or DELETE on it that reaches the store is answered 404.
C7_DeletePermanent ==
    [][/\ (Handled("DELETE") /\ storeUp /\ ~fault'
           /\ RowsWithId(entradas, req'.id) # {})
          => (resp'.status = 200 /\ Gone(entradas', nextId', req'.id))
       /\ \A id \in Ids : Gone(entradas, nextId, id) => Gone(entradas', nextId', id)
       /\ ((Handled("GET") \/ Handled("DELETE")) /\ storeUp /\ ~fault'
           /\ Gone(entradas, nextId, req'.id))
          => resp'.status = 404]_vars

C7_Witness ==
    /\ req.op = "DELETE"
    /\ resp.status = 404
    /\ Gone(entradas, nextId, req.id)
    /\ storeUp

Ops == {"GET_ALL", "GET", "POST", "PUT", "DELETE"}

\* C8 as stated: without a connection every handler answers 503, executes no
\* statement and leaves the entries unchanged.
C8_Original ==
    [][((\E op \in Ops : Handled(op)) /\ ~storeUp)
       => (resp'.status = 503 /\ stmts' = 0 /\ entradas' = entradas)]_vars

\* C8 amended: without a connection every handler answers 500 Internal Server
\* Error, executes no statement and leaves the entries unchanged.
C8_NoConnection ==
    [][((\E op \in Ops : Handled(op)) /\ ~storeUp)
       => /\ resp'.status = 500
          /\ resp'.kind = "message"
          /\ stmts' = 0
          /\ entradas' = entradas
          /\ nextId' = nextId]_vars

C8_Witness ==
    /\ req.op = "DELETE"
    /\ resp.status = 500
    /\ ~storeUp
    /\ RowsWithId(entradas, req.id) # {}

\* C9: if the store cannot be reached at start-up the process exits with a
\* non-zero code and never serves requests.
C9_StartupExit ==
    [][(phase = "boot" /\ ~storeUp)
       => (phase' # "serving" /\ (phase' = "exited" => exitCode' # 0))]_vars

\* C10: every handler executes at most one statement per request; under any
\* interleaving the stored entries and every response equal those of the
\* serial execution of the same requests in the order the store executed
\* them; and a PUT whose statement the store executes leaves its values in
\* the fields it sets, whatever an overlapping PUT wrote there before.
C10_Serializable ==
    [][/\ \A w \in Workers : cstmts'[w] <= 1
       /\ serial' = [tabla |-> entradas', nextId |-> nextId']
       /\ \A w \in Workers : pc'[w] = "done" => cresp'[w] = expected'[w]
       /\ \A w \in Workers :
             (pc[w] = "exec" /\ pc'[w] = "respond" /\ creq[w].op = "PUT"
              /\ conn'[w].err = NoError)
             => \A r \in entradas' :
                   r.id = creq[w].id
                   => \A c \in Columns :
                         creq[w].data[c] # None => r[c] = creq[w].data[c][1]
      ]_vars

C10_Witness ==
    /\ pc["w1"] = "done"
    /\ pc["w2"] = "done"
    /\ creq["w1"].op = "PUT"
    /\ creq["w2"].op = "PUT"
    /\ creq["w1"].id = creq["w2"].id
    /\ creq["w1"].data.cantidad_entradas = Some(2)
    /\ creq["w2"].data.cantidad_entradas = Some(3)
    /\ cresp["w1"].status = 200
    /\ cresp["w2"].status = 200

TypeOK ==
    /\ phase \in {"boot", "serving", "exited"}
    /\ entradas \subseteq Entrada
    /\ nextId \in 1..(MaxId + 1)
====
